---- MODULE Spec2Model ----
(***************************************************************************)
(* A model of the CockroachDB MCP server: the environment-configured,      *)
(* read-only server (src/src/server.ts over the database helpers of        *)
(* src/unnamed/part_001) and the URL-configured server                     *)
(* (src/dist/server.js).  Strings are sequences of one-character strings,  *)
(* so that the regular-expression test, the SELECT check and the type      *)
(* dispatch are computed character by character, as the code computes them.*)
(***************************************************************************)
EXTENDS Integers, Sequences, FiniteSets, TLC

\* ------------------------------------------------------------------------
\* Bounds of the model
\* ------------------------------------------------------------------------

\* Longest identifier string enumerated for the identifier test.
MaxIdLen == 3

\* Longest run of leading white space enumerated for the SELECT check.
MaxPad == 2

\* Longest declared-type string enumerated for the statistics dispatch.
MaxTypeLen == 4

\* ------------------------------------------------------------------------
\* Characters and the JavaScript string methods the handlers use
\* ------------------------------------------------------------------------

UpperCase ==
    <<"A","B","C","D","E","F","G","H","I","J","K","L","M","N","O","P","Q",
      "R","S","T","U","V","W","X","Y","Z">>

LowerCase ==
    <<"a","b","c","d","e","f","g","h","i","j","k","l","m","n","o","p","q",
      "r","s","t","u","v","w","x","y","z">>

Digits ==
    <<"0","1","2","3","4","5","6","7","8","9">>

Range(s) == {s[i] : i \in DOMAIN s}

\* All sequences over alphabet of length at most n.
RECURSIVE StringsUpTo(_, _)
StringsUpTo(alphabet, n) ==
    IF n = 0 THEN {<<>>}
    ELSE LET shorter == StringsUpTo(alphabet, n - 1)
         IN  shorter \cup {Append(s, c) : s \in shorter, c \in alphabet}

\* What String.prototype.trim strips (the white space and line terminators
\* of the model's alphabet).
WhiteSpace == {" ", "\t", "\n", "\r", "\f"}

RECURSIVE trimStart(_)
trimStart(s) ==
    IF s # <<>> /\ Head(s) \in WhiteSpace THEN trimStart(Tail(s)) ELSE s

RECURSIVE trimEnd(_)
trimEnd(s) ==
    IF s # <<>> /\ s[Len(s)] \in WhiteSpace
    THEN trimEnd(SubSeq(s, 1, Len(s) - 1))
    ELSE s

\* String.prototype.trim
trim(s) == trimEnd(trimStart(s))

toLowerCaseChar(c) ==
    IF \E i \in DOMAIN UpperCase : UpperCase[i] = c
    THEN LowerCase[CHOOSE i \in DOMAIN UpperCase : UpperCase[i] = c]
    ELSE c

\* String.prototype.toLowerCase
toLowerCase(s) == [i \in DOMAIN s |-> toLowerCaseChar(s[i])]

\* String.prototype.startsWith
startsWith(s, prefix) ==
    Len(s) >= Len(prefix) /\ SubSeq(s, 1, Len(prefix)) = prefix

\* String.prototype.includes
includes(s, needle) ==
    \E i \in 0..(Len(s) - Len(needle)) : SubSeq(s, i + 1, i + Len(needle)) = needle

\* Number to its decimal text, as a template literal renders `${limit}`.
RECURSIVE numberToString(_)
numberToString(n) ==
    IF n < 10 THEN <<Digits[n + 1]>>
    ELSE Append(numberToString(n \div 10), Digits[(n % 10) + 1])

\* ------------------------------------------------------------------------
\* Identifier Sanitizer: /^[a-zA-Z0-9_]+$/.test(x)
\* ------------------------------------------------------------------------

\* The character class [a-zA-Z0-9_].
identifierClass ==
    Range(LowerCase) \cup Range(UpperCase) \cup Range(Digits) \cup {"_"}

\* The greedy class+ run from position i: the position after its last character.
RECURSIVE classRun(_, _)
classRun(s, i) ==
    IF i <= Len(s) /\ s[i] \in identifierClass THEN classRun(s, i + 1) ELSE i

\* A plausible slip: the pattern without its $ anchor, /^[a-zA-Z0-9_]+/.
identifierTestUnanchored(s) == classRun(s, 1) > 1

\* ^ anchors the run at the first character, + needs one character at least,
\* $ needs the run to end the string.
identifierTest(s) ==
    LET end == classRun(s, 1)
    IN  end > 1 /\ end = Len(s) + 1

\* ------------------------------------------------------------------------
\* Query Classifier: query.trim().toLowerCase().startsWith('select')
\* ------------------------------------------------------------------------

selectKeyword == <<"s","e","l","e","c","t">>

\* A plausible slip: the keyword looked for anywhere in the text.
isSelectAnywhere(query) == includes(toLowerCase(trim(query)), selectKeyword)

\* A plausible slip: the check without the case fold.
isSelectCaseSensitive(query) == startsWith(trim(query), selectKeyword)

isSelect(query) ==
    LET trimmedQuery == toLowerCase(trim(query))
    IN  startsWith(trimmedQuery, selectKeyword)

\* ------------------------------------------------------------------------
\* Statistics Synthesizer: the branch column-stats takes for a declared type
\* ------------------------------------------------------------------------

\* A plausible slip: the type name compared for equality, not containment.
statsBranchEquality(dataType) ==
    IF dataType \in {<<"i","n","t">>, <<"f","l","o","a","t">>,
                     <<"d","e","c","i","m","a","l">>,
                     <<"n","u","m","e","r","i","c">>}
    THEN "numeric"
    ELSE IF dataType \in {<<"d","a","t","e">>, <<"t","i","m","e">>}
    THEN "temporal"
    ELSE "fallback"

statsBranch(dataType) ==
    IF \/ includes(dataType, <<"i","n","t">>)
       \/ includes(dataType, <<"f","l","o","a","t">>)
       \/ includes(dataType, <<"d","e","c","i","m","a","l">>)
       \/ includes(dataType, <<"n","u","m","e","r","i","c">>)
    THEN "numeric"
    ELSE IF includes(dataType, <<"d","a","t","e">>) \/ includes(dataType, <<"t","i","m","e">>)
    THEN "temporal"
    ELSE "fallback"

\* src/unnamed/part_001:152-156  getAllTables: query
allTablesQuery ==
    <<"\n"," "," "," "," ","S","E","L","E","C","T"," ","t","a","b","l","e",
      "_","n","a","m","e"," ","\n"," "," "," "," ","F","R","O","M"," ","i",
      "n","f","o","r","m","a","t","i","o","n","_","s","c","h","e","m","a",
      ".","t","a","b","l","e","s"," ","\n"," "," "," "," ","W","H","E","R",
      "E"," ","t","a","b","l","e","_","s","c","h","e","m","a"," ","="," ",
      "'","p","u","b","l","i","c","'","\n"," "," ">>

\* src/unnamed/part_001:162-167  getTableSchema: query
tableSchemaQuery ==
    <<"\n"," "," "," "," ","S","E","L","E","C","T"," ","c","o","l","u","m",
      "n","_","n","a","m","e",","," ","d","a","t","a","_","t","y","p","e",
      ","," ","i","s","_","n","u","l","l","a","b","l","e",","," ","c","o",
      "l","u","m","n","_","d","e","f","a","u","l","t"," ","\n"," "," "," ",
      " ","F","R","O","M"," ","i","n","f","o","r","m","a","t","i","o","n",
      "_","s","c","h","e","m","a",".","c","o","l","u","m","n","s"," ","\n",
      " "," "," "," ","W","H","E","R","E"," ","t","a","b","l","e","_","s",
      "c","h","e","m","a"," ","="," ","'","p","u","b","l","i","c","'"," ",
      "A","N","D"," ","t","a","b","l","e","_","n","a","m","e"," ","="," ",
      "$","1","\n"," "," "," "," ","O","R","D","E","R"," ","B","Y"," ","o",
      "r","d","i","n","a","l","_","p","o","s","i","t","i","o","n","\n"," ",
      " ">>

\* src/unnamed/part_001:175-179  getTableDetails: indexQuery
indexQuery ==
    <<"\n"," "," "," "," ","S","E","L","E","C","T"," ","i","n","d","e","x",
      "n","a","m","e",","," ","i","n","d","e","x","d","e","f","\n"," "," ",
      " "," ","F","R","O","M"," ","p","g","_","i","n","d","e","x","e","s",
      "\n"," "," "," "," ","W","H","E","R","E"," ","s","c","h","e","m","a",
      "n","a","m","e"," ","="," ","'","p","u","b","l","i","c","'"," ","A",
      "N","D"," ","t","a","b","l","e","n","a","m","e"," ","="," ","$","1",
      "\n"," "," ">>

\* src/unnamed/part_001:182-187  getTableDetails: pkQuery
pkQuery ==
    <<"\n"," "," "," "," ","S","E","L","E","C","T"," ","a",".","a","t","t",
      "n","a","m","e","\n"," "," "," "," ","F","R","O","M"," ","p","g","_",
      "i","n","d","e","x"," ","i","\n"," "," "," "," ","J","O","I","N"," ",
      "p","g","_","a","t","t","r","i","b","u","t","e"," ","a"," ","O","N",
      " ","a",".","a","t","t","r","e","l","i","d"," ","="," ","i",".","i",
      "n","d","r","e","l","i","d"," ","A","N","D"," ","a",".","a","t","t",
      "n","u","m"," ","="," ","A","N","Y","(","i",".","i","n","d","k","e",
      "y",")","\n"," "," "," "," ","W","H","E","R","E"," ","i",".","i","n",
      "d","r","e","l","i","d"," ","="," ","$","1",":",":","r","e","g","c",
      "l","a","s","s"," ","A","N","D"," ","i",".","i","n","d","i","s","p",
      "r","i","m","a","r","y","\n"," "," ">>

\* src/unnamed/part_001:188-188  getTableDetails: `public.${tableName}`
pkParam(tableName) ==
    <<"p","u","b","l","i","c",".">>
    \o
    tableName

\* src/unnamed/part_001:198-198  getTableStats: countQuery
countQuery(tableName) ==
    <<"S","E","L","E","C","T"," ","C","O","U","N","T","(","*",")"," ","a",
      "s"," ","t","o","t","a","l","_","r","o","w","s"," ","F","R","O","M",
      " ","\"">>
    \o
    tableName
    \o
    <<"\"">>

\* src/unnamed/part_001:201-201  getTableStats: sizeQuery
sizeQuery ==
    <<"S","E","L","E","C","T"," ","p","g","_","s","i","z","e","_","p","r",
      "e","t","t","y","(","p","g","_","t","o","t","a","l","_","r","e","l",
      "a","t","i","o","n","_","s","i","z","e","(","$","1",")",")"," ","a",
      "s"," ","t","a","b","l","e","_","s","i","z","e">>

\* src/unnamed/part_001:202-202  getTableStats: `public.${tableName}`
sizeParam(tableName) ==
    <<"p","u","b","l","i","c",".">>
    \o
    tableName

\* src/src/server.ts:206-206  get-sample-data: let query
sampleSelect(tableName) ==
    <<"S","E","L","E","C","T"," ","*"," ","F","R","O","M"," ","\"">>
    \o
    tableName
    \o
    <<"\"">>

\* src/src/server.ts:213-213  get-sample-data: query += ORDER BY
sampleOrderBy(orderBy) ==
    <<" ","O","R","D","E","R"," ","B","Y"," ","\"">>
    \o
    orderBy
    \o
    <<"\"">>

\* src/src/server.ts:216-216  get-sample-data: query += LIMIT
sampleLimit(limit) ==
    <<" ","L","I","M","I","T"," ">>
    \o
    limit

\* src/src/server.ts:252-252  count-rows: let query
countRowsSelect(tableName) ==
    <<"S","E","L","E","C","T"," ","C","O","U","N","T","(","*",")"," ","a",
      "s"," ","c","o","u","n","t"," ","F","R","O","M"," ","\"">>
    \o
    tableName
    \o
    <<"\"">>

\* src/src/server.ts:256-256  count-rows: query += WHERE
countRowsWhere(whereClause) ==
    <<" ","W","H","E","R","E"," ">>
    \o
    whereClause

\* src/src/server.ts:294-298  column-stats: schemaQuery
schemaQuery ==
    <<"\n"," "," "," "," "," "," "," "," "," "," ","S","E","L","E","C","T",
      " ","d","a","t","a","_","t","y","p","e"," ","\n"," "," "," "," "," ",
      " "," "," "," "," ","F","R","O","M"," ","i","n","f","o","r","m","a",
      "t","i","o","n","_","s","c","h","e","m","a",".","c","o","l","u","m",
      "n","s"," ","\n"," "," "," "," "," "," "," "," "," "," ","W","H","E",
      "R","E"," ","t","a","b","l","e","_","s","c","h","e","m","a"," ","=",
      " ","'","p","u","b","l","i","c","'"," ","A","N","D"," ","t","a","b",
      "l","e","_","n","a","m","e"," ","="," ","$","1"," ","A","N","D"," ",
      "c","o","l","u","m","n","_","n","a","m","e"," ","="," ","$","2","\n",
      " "," "," "," "," "," "," "," ">>

\* src/src/server.ts:310-319  column-stats: statsQuery, numeric branch
statsQueryNumeric(tableName, columnName) ==
    <<"\n"," "," "," "," "," "," "," "," "," "," "," "," ","S","E","L","E",
      "C","T"," ","\n"," "," "," "," "," "," "," "," "," "," "," "," "," ",
      " ","C","O","U","N","T","(","\"">>
    \o
    columnName
    \o
    <<"\"",")"," ","a","s"," ","c","o","u","n","t",",","\n"," "," "," "," ",
      " "," "," "," "," "," "," "," "," "," ","A","V","G","(","\"">>
    \o
    columnName
    \o
    <<"\"",")"," ","a","s"," ","m","e","a","n",",","\n"," "," "," "," "," ",
      " "," "," "," "," "," "," "," "," ","M","I","N","(","\"">>
    \o
    columnName
    \o
    <<"\"",")"," ","a","s"," ","m","i","n",",","\n"," "," "," "," "," "," ",
      " "," "," "," "," "," "," "," ","M","A","X","(","\"">>
    \o
    columnName
    \o
    <<"\"",")"," ","a","s"," ","m","a","x",",","\n"," "," "," "," "," "," ",
      " "," "," "," "," "," "," "," ","P","E","R","C","E","N","T","I","L",
      "E","_","C","O","N","T","(","0",".","5",")"," ","W","I","T","H","I",
      "N"," ","G","R","O","U","P"," ","(","O","R","D","E","R"," ","B","Y",
      " ","\"">>
    \o
    columnName
    \o
    <<"\"",")"," ","a","s"," ","m","e","d","i","a","n","\n"," "," "," "," ",
      " "," "," "," "," "," "," "," ","F","R","O","M"," ","\"">>
    \o
    tableName
    \o
    <<"\"","\n"," "," "," "," "," "," "," "," "," "," "," "," ","W","H","E",
      "R","E"," ","\"">>
    \o
    columnName
    \o
    <<"\""," ","I","S"," ","N","O","T"," ","N","U","L","L","\n"," "," "," ",
      " "," "," "," "," "," "," ">>

\* src/src/server.ts:321-328  column-stats: statsQuery, temporal branch
statsQueryTemporal(tableName, columnName) ==
    <<"\n"," "," "," "," "," "," "," "," "," "," "," "," ","S","E","L","E",
      "C","T"," ","\n"," "," "," "," "," "," "," "," "," "," "," "," "," ",
      " ","C","O","U","N","T","(","\"">>
    \o
    columnName
    \o
    <<"\"",")"," ","a","s"," ","c","o","u","n","t",",","\n"," "," "," "," ",
      " "," "," "," "," "," "," "," "," "," ","M","I","N","(","\"">>
    \o
    columnName
    \o
    <<"\"",")"," ","a","s"," ","m","i","n",",","\n"," "," "," "," "," "," ",
      " "," "," "," "," "," "," "," ","M","A","X","(","\"">>
    \o
    columnName
    \o
    <<"\"",")"," ","a","s"," ","m","a","x","\n"," "," "," "," "," "," "," ",
      " "," "," "," "," ","F","R","O","M"," ","\"">>
    \o
    tableName
    \o
    <<"\"","\n"," "," "," "," "," "," "," "," "," "," "," "," ","W","H","E",
      "R","E"," ","\"">>
    \o
    columnName
    \o
    <<"\""," ","I","S"," ","N","O","T"," ","N","U","L","L","\n"," "," "," ",
      " "," "," "," "," "," "," ">>

\* src/src/server.ts:331-338  column-stats: statsQuery, fallback branch
statsQueryFallback(tableName, columnName) ==
    <<"\n"," "," "," "," "," "," "," "," "," "," "," "," ","S","E","L","E",
      "C","T"," ","\n"," "," "," "," "," "," "," "," "," "," "," "," "," ",
      " ","C","O","U","N","T","(","\"">>
    \o
    columnName
    \o
    <<"\"",")"," ","a","s"," ","c","o","u","n","t",",","\n"," "," "," "," ",
      " "," "," "," "," "," "," "," "," "," ","C","O","U","N","T","(","D",
      "I","S","T","I","N","C","T"," ","\"">>
    \o
    columnName
    \o
    <<"\"",")"," ","a","s"," ","d","i","s","t","i","n","c","t","_","c","o",
      "u","n","t",",","\n"," "," "," "," "," "," "," "," "," "," "," "," ",
      " "," ","M","A","X","(","L","E","N","G","T","H","(","\"">>
    \o
    columnName
    \o
    <<"\"",")",")"," ","a","s"," ","m","a","x","_","l","e","n","g","t","h",
      "\n"," "," "," "," "," "," "," "," "," "," "," "," ","F","R","O","M",
      " ","\"">>
    \o
    tableName
    \o
    <<"\"","\n"," "," "," "," "," "," "," "," "," "," "," "," ","W","H","E",
      "R","E"," ","\"">>
    \o
    columnName
    \o
    <<"\""," ","I","S"," ","N","O","T"," ","N","U","L","L","\n"," "," "," ",
      " "," "," "," "," "," "," ">>

\* src/src/server.ts:344-348  column-stats: nullQuery
nullQuery(tableName, columnName) ==
    <<"\n"," "," "," "," "," "," "," "," "," "," ","S","E","L","E","C","T",
      " ","C","O","U","N","T","(","*",")"," ","a","s"," ","n","u","l","l",
      "_","c","o","u","n","t","\n"," "," "," "," "," "," "," "," "," "," ",
      "F","R","O","M"," ","\"">>
    \o
    tableName
    \o
    <<"\"","\n"," "," "," "," "," "," "," "," "," "," ","W","H","E","R","E",
      " ","\"">>
    \o
    columnName
    \o
    <<"\""," ","I","S"," ","N","U","L","L","\n"," "," "," "," "," "," "," ",
      " ">>

\* src/src/server.ts:390-390  explore-table: sampleDataQuery
sampleDataQuery(tableName) ==
    <<"S","E","L","E","C","T"," ","*"," ","F","R","O","M"," ","\"">>
    \o
    tableName
    \o
    <<"\""," ","L","I","M","I","T"," ","5">>

\* src/dist/server.js:24-26  databases resource, list
databasesListQuery ==
    <<"S","E","L","E","C","T"," ","n","a","m","e"," ","\n"," "," "," "," ",
      " "," "," "," "," ","F","R","O","M"," ","c","r","d","b","_","i","n",
      "t","e","r","n","a","l",".","d","a","t","a","b","a","s","e","s"," ",
      "\n"," "," "," "," "," "," "," "," "," ","W","H","E","R","E"," ","n",
      "a","m","e"," ","N","O","T"," ","I","N"," ","(","'","s","y","s","t",
      "e","m","'",","," ","'","p","o","s","t","g","r","e","s","'",")">>

\* src/dist/server.js:42-46  databases resource, read
databaseReadQuery ==
    <<"S","E","L","E","C","T"," ","\n"," "," "," "," "," "," "," "," "," ",
      " ","o","w","n","e","r",",","\n"," "," "," "," "," "," "," "," "," ",
      " ","v","e","r","s","i","o","n"," ","\n"," "," "," "," "," "," "," ",
      " "," ","F","R","O","M"," ","c","r","d","b","_","i","n","t","e","r",
      "n","a","l",".","d","a","t","a","b","a","s","e","s"," ","\n"," "," ",
      " "," "," "," "," "," "," ","W","H","E","R","E"," ","n","a","m","e",
      " ","="," ","$","1">>

\* src/dist/server.js:68-71  schema resource, list
schemaListQuery ==
    <<"S","E","L","E","C","T"," ","n","a","m","e"," ","a","s"," ","t","a",
      "b","l","e","_","n","a","m","e",","," ","d","a","t","a","b","a","s",
      "e","_","n","a","m","e","\n"," "," "," "," "," "," "," "," "," ","F",
      "R","O","M"," ","c","r","d","b","_","i","n","t","e","r","n","a","l",
      ".","t","a","b","l","e","s"," ","\n"," "," "," "," "," "," "," "," ",
      " ","W","H","E","R","E"," ","s","c","h","e","m","a","_","n","a","m",
      "e"," ","N","O","T"," ","I","N"," ","(","'","c","r","d","b","_","i",
      "n","t","e","r","n","a","l","'",","," ","'","p","g","_","c","a","t",
      "a","l","o","g","'",","," ","'","i","n","f","o","r","m","a","t","i",
      "o","n","_","s","c","h","e","m","a","'",")","\n"," "," "," "," "," ",
      " "," "," "," ","A","N","D"," ","d","a","t","a","b","a","s","e","_",
      "n","a","m","e"," ","I","S"," ","N","O","T"," ","N","U","L","L">>

\* src/dist/server.js:87-95  schema resource, read
schemaReadQuery ==
    <<"S","E","L","E","C","T"," ","\n"," "," "," "," "," "," "," "," "," ",
      " ","c","o","l","u","m","n","_","n","a","m","e",",","\n"," "," "," ",
      " "," "," "," "," "," "," ","c","o","l","u","m","n","_","t","y","p",
      "e",",","\n"," "," "," "," "," "," "," "," "," "," ","n","u","l","l",
      "a","b","l","e",",","\n"," "," "," "," "," "," "," "," "," "," ","d",
      "e","f","a","u","l","t","_","e","x","p","r",",","\n"," "," "," "," ",
      " "," "," "," "," "," ","h","i","d","d","e","n","\n"," "," "," "," ",
      " "," "," "," "," ","F","R","O","M"," ","c","r","d","b","_","i","n",
      "t","e","r","n","a","l",".","t","a","b","l","e","_","c","o","l","u",
      "m","n","s","\n"," "," "," "," "," "," "," "," "," ","W","H","E","R",
      "E"," ","d","e","s","c","r","i","p","t","o","r","_","n","a","m","e",
      " ","="," ","$","1","\n"," "," "," "," "," "," "," "," "," ","O","R",
      "D","E","R"," ","B","Y"," ","c","o","l","u","m","n","_","i","d">>

\* ------------------------------------------------------------------------
\* Bounds of the server model
\* ------------------------------------------------------------------------

\* Requests the host may have in flight at once (pipelined workload).
MaxInFlight == 2

\* Clients the connection pool hands out at once.
PoolSize == 1

\* Tables the catalog query may return.
MaxTables == 2

\* ------------------------------------------------------------------------
\* State
\* ------------------------------------------------------------------------

VARIABLES
    variant,    \* "env": src/src/server.ts; "url": src/dist/server.js
    workload,   \* "sequential": one request at a time, every input;
                \* "pipelined": MaxInFlight requests at once, plain inputs
    inv,        \* request slot -> the handler invocation running in it
    poolOut,    \* clients checked out of the pool and not yet released
    proc,       \* the server process: how far its start-up has come, its
                \* arguments, what it wrote to stderr, whether it has exited
    reach,      \* "up" / "down": whether the database can be reached now
    probe       \* a pure function applied to one input (function specifications)

vars == <<variant, workload, inv, poolOut, proc, reach, probe>>

Slots == 1..MaxInFlight

\* An optional argument the caller left out.
Undefined == <<"undefined">>

\* JavaScript truthiness of an optional string argument: if (orderBy).
truthy(s) == s # Undefined /\ s # <<>>

\* ------------------------------------------------------------------------
\* Response envelopes
\* ------------------------------------------------------------------------

NoResponse ==
    [kind |-> "none", outcome |-> "none", isError |-> FALSE,
     mimeType |-> "none", content |-> <<>>]

\* { content: [{ type: "text", text }] }
toolResult(text) ==
    [kind |-> "tool", outcome |-> "Success", isError |-> FALSE,
     mimeType |-> "none", content |-> <<text>>]

\* A plausible slip: the error text returned without isError: true.
toolErrorUnflagged(text) ==
    [kind |-> "tool", outcome |-> "Failure", isError |-> FALSE,
     mimeType |-> "none", content |-> <<text>>]

\* { content: [{ type: "text", text }], isError: true }
toolError(text) ==
    [kind |-> "tool", outcome |-> "Failure", isError |-> TRUE,
     mimeType |-> "none", content |-> <<text>>]

\* { contents: [{ uri, text, mimeType: "application/json" }] }
resourceContents(text) ==
    [kind |-> "resource", outcome |-> "Success", isError |-> FALSE,
     mimeType |-> "application/json", content |-> <<text>>]

\* A resource handler's catch: { contents: [{ uri, text, mimeType: "text/plain" }] }
resourceErrorContents(text) ==
    [kind |-> "resource", outcome |-> "Failure", isError |-> FALSE,
     mimeType |-> "text/plain", content |-> <<text>>]

\* { messages: [{ role: "user", content: { type: "text", text } }] }
promptMessage(outcome, text) ==
    [kind |-> "prompt", outcome |-> outcome, isError |-> FALSE,
     mimeType |-> "none", content |-> <<text>>]

\* What a resource template's list callback returns.
listResult(rows) ==
    [kind |-> "list", outcome |-> "Success", isError |-> FALSE,
     mimeType |-> "none", content |-> <<<<[json |-> rows]>>>>]

\* An exception that leaves the handler: its promise rejects.
thrown(message) ==
    [kind |-> "thrown", outcome |-> "Failure", isError |-> FALSE,
     mimeType |-> "none", content |-> <<message>>]

\* server.ts:164
selectOnlyText ==
    <<[lit |-> "Error: Only SELECT queries are allowed for security reasons."]>>

\* new Error("...").message
errorMessage(text) == <<[lit |-> text]>>

\* The message of an error the driver raised.
driverMessage(text) == <<[driver |-> text]>>

\* pool.connect() rejected: the database cannot be reached.
connectError == driverMessage("connect ECONNREFUSED")

\* client.query() rejected: syntax error, permission denied, missing relation.
queryError == driverMessage("query failed")
\* The grave accent (U+0060) of a response text, by its code.
backtick == [code |-> 96]

\* src/src/server.ts:42  tables-list, catch
tablesListErrorText(message) ==
    <<[lit |-> "Error fetching tables: "]>>
    \o message

\* src/src/server.ts:74  table-schema, catch
tableSchemaErrorText(tableName, message) ==
    <<[lit |-> "Error fetching schema for "]>>
    \o <<[str |-> tableName]>>
    \o <<[lit |-> ": "]>>
    \o message

\* src/src/server.ts:106  table-details, catch
tableDetailsErrorText(tableName, message) ==
    <<[lit |-> "Error fetching details for "]>>
    \o <<[str |-> tableName]>>
    \o <<[lit |-> ": "]>>
    \o message

\* src/src/server.ts:138  table-stats, catch
tableStatsErrorText(tableName, message) ==
    <<[lit |-> "Error fetching stats for "]>>
    \o <<[str |-> tableName]>>
    \o <<[lit |-> ": "]>>
    \o message

\* src/src/server.ts:182  execute-query, catch
executeQueryErrorText(message) ==
    <<[lit |-> "Error executing query: "]>>
    \o message

\* src/src/server.ts:229  get-sample-data, catch
sampleDataErrorText(message) ==
    <<[lit |-> "Error fetching sample data: "]>>
    \o message

\* src/src/server.ts:263  count-rows, success
countRowsText(tableName, count, matching) ==
    <<[lit |-> "Table "]>>
    \o <<[str |-> tableName]>>
    \o <<[lit |-> " has "]>>
    \o <<[json |-> count]>>
    \o <<[lit |-> " rows"]>>
    \o matching
    \o <<[lit |-> "."]>>

\* src/src/server.ts:270  count-rows, catch
countRowsErrorText(message) ==
    <<[lit |-> "Error counting rows: "]>>
    \o message

\* src/src/server.ts:302  column-stats: the NotFound error's message
columnNotFoundMessage(columnName, tableName) ==
    <<[lit |-> "Column "]>>
    \o <<[str |-> columnName]>>
    \o <<[lit |-> " not found in table "]>>
    \o <<[str |-> tableName]>>

\* src/src/server.ts:368  column-stats, catch
columnStatsErrorText(message) ==
    <<[lit |-> "Error getting column statistics: "]>>
    \o message

\* src/src/server.ts:403  explore-table, success
exploreTableText(tableName, schemaText, sampleDataText, statsText) ==
    <<[lit |-> "I want to explore the \""]>>
    \o <<[str |-> tableName]>>
    \o <<[lit |-> "\" table in my CockroachDB database. Here's the schema:\n\n"]>>
    \o <<[json |-> schemaText]>>
    \o <<[lit |-> "\n\nHere's a sample of the data:\n\n"]>>
    \o <<[json |-> sampleDataText]>>
    \o <<[lit |-> "\n\nTable Statistics:\n"]>>
    \o <<[json |-> statsText]>>
    \o <<[lit |-> "\n\nPlease help me understand this data, identify key patterns, and suggest some useful analyses I could perform. What insights can I derive from this table?"]>>

\* src/src/server.ts:413  explore-table, catch
exploreTableErrorText(tableName, message) ==
    <<[lit |-> "I wanted to explore the \""]>>
    \o <<[str |-> tableName]>>
    \o <<[lit |-> "\" table but encountered an error: "]>>
    \o message
    \o <<[lit |-> ". Can you suggest how I might troubleshoot this issue?"]>>

\* src/src/server.ts:448  generate-query, success
generateQueryText(objective, tableListText, schemaText) ==
    <<[lit |-> "I need help writing a SQL query for CockroachDB to "]>>
    \o <<[str |-> objective]>>
    \o <<[lit |-> ".\n\nAvailable tables: "]>>
    \o <<[json |-> tableListText]>>
    \o <<[lit |-> "\n\nHere are the schemas for these tables:\n\n"]>>
    \o <<[json |-> schemaText]>>
    \o <<[lit |-> "\n\nCan you help me write an efficient query for this purpose? Please explain your approach step by step and consider CockroachDB's performance characteristics."]>>

\* src/src/server.ts:458  generate-query, catch
generateQueryErrorText(objective, message) ==
    <<[lit |-> "I need help writing a SQL query for CockroachDB to "]>>
    \o <<[str |-> objective]>>
    \o <<[lit |-> ". However, I encountered an error when trying to get table information: "]>>
    \o message
    \o <<[lit |-> ". Can you still help me outline an approach based on the objective?"]>>

\* src/src/server.ts:483  analyze-query-results, not a SELECT
analyzeRejectionText(query, analysisGoal) ==
    <<[lit |-> "I want to analyze the results of this query: "]>>
    \o <<backtick>>
    \o <<[str |-> query]>>
    \o <<backtick>>
    \o <<[lit |-> " to "]>>
    \o <<[str |-> analysisGoal]>>
    \o <<[lit |-> ". However, for security reasons, this prompt can only run SELECT queries. Can you help me modify this query to be read-only while still achieving my analysis goals?"]>>

\* src/src/server.ts:498  analyze-query-results, success
analyzeText(query, resultsText, analysisGoal) ==
    <<[lit |-> "I ran this SQL query against my CockroachDB database:\n\n"]>>
    \o <<backtick>>
    \o <<backtick>>
    \o <<backtick>>
    \o <<[lit |-> "sql\n"]>>
    \o <<[str |-> query]>>
    \o <<[lit |-> "\n"]>>
    \o <<backtick>>
    \o <<backtick>>
    \o <<backtick>>
    \o <<[lit |-> "\n\nAnd got these results:\n\n"]>>
    \o <<backtick>>
    \o <<backtick>>
    \o <<backtick>>
    \o <<[lit |-> "json\n"]>>
    \o <<[json |-> resultsText]>>
    \o <<[lit |-> "\n"]>>
    \o <<backtick>>
    \o <<backtick>>
    \o <<backtick>>
    \o <<[lit |-> "\n\nI want to "]>>
    \o <<[str |-> analysisGoal]>>
    \o <<[lit |-> ". Can you analyze these results and provide insights? Please include observations about patterns, anomalies, and potential business implications of this data."]>>

\* src/src/server.ts:508  analyze-query-results, catch
analyzeErrorText(query, analysisGoal, message) ==
    <<[lit |-> "I tried to run this query: "]>>
    \o <<backtick>>
    \o <<[str |-> query]>>
    \o <<backtick>>
    \o <<[lit |-> " to "]>>
    \o <<[str |-> analysisGoal]>>
    \o <<[lit |-> ", but I got this error: "]>>
    \o message
    \o <<[lit |-> ". Can you help me fix this query? I'm using CockroachDB, which is PostgreSQL-compatible."]>>

\* src/src/server.ts:529  optimize-query
optimizeQueryText(query) ==
    <<[lit |-> "I need to optimize this CockroachDB query for better performance:\n\n"]>>
    \o <<backtick>>
    \o <<backtick>>
    \o <<backtick>>
    \o <<[lit |-> "sql\n"]>>
    \o <<[str |-> query]>>
    \o <<[lit |-> "\n"]>>
    \o <<backtick>>
    \o <<backtick>>
    \o <<backtick>>
    \o <<[lit |-> "\n\nCan you analyze this query and suggest optimizations? Please consider:\n\n1. Index usage and potential new indexes\n2. Query structure and JOINs\n3. WHERE clause optimizations\n4. CockroachDB-specific optimizations\n5. Any other potential performance improvements"]>>

\* ------------------------------------------------------------------------
\* Inputs the host may send and rows the database may return
\* ------------------------------------------------------------------------

\* A table name that closes the quoted identifier and adds a statement.
injectedName ==
    <<"t","\"",";","d","r","o","p"," ","t","a","b","l","e"," ","t",";",
        "-","-">>

\* Table, column and order-by names (z.string()).
IdentifierInputs ==
    IF workload = "sequential"
    THEN {<<"t">>, <<"c", "_", "1">>, <<>>, <<"t", ";">>, injectedName}
    ELSE {<<"t">>}

\* Names that arrive in a resource URI: a template variable matches a non-empty
\* path segment, in which the URL keeps a double quote and a space encoded.
ResourceNameInputs ==
    {s \in IdentifierInputs :
        s # <<>> /\ \A i \in DOMAIN s : s[i] \notin {"\"", " ", "/"}}

\* The query argument of execute-query, analyze-query-results, optimize-query.
QueryInputs ==
    IF workload = "sequential"
    THEN {<<" "," ","S","E","L","E","C","T"," ","1">>,
          <<"s","e","l","e","c","t"," ","1",";","d","r","o","p"," ","t","a","b",
        "l","e"," ","t">>,
          <<"D","R","O","P"," ","T","A","B","L","E"," ","o","r","d","e","r","s">>,
          <<"u","p","d","a","t","e"," ","t"," ","s","e","t"," ","x","=","1">>,
          <<"-","-"," ","s","e","l","e","c","t","\n","u","p","d","a","t","e",
        " ","t">>,
          <<>>}
    ELSE {<<"s","e","l","e","c","t"," ","1">>}

\* The optional whereClause argument of count-rows.
WhereInputs ==
    IF workload = "sequential"
    THEN {Undefined, <<>>,
          <<"x",">","1">>,
          <<"1","=","1",";","d","r","o","p"," ","t","a","b","l","e"," ","t">>}
    ELSE {Undefined}

\* The limit argument of get-sample-data: z.number().default(10).
LimitInputs == IF workload = "sequential" THEN {0, 10} ELSE {10}

\* Free text of the prompts (objective, analysisGoal).
goalText == <<"g","o","a","l">>

NoArgs ==
    [tableName |-> Undefined, columnName |-> Undefined, orderBy |-> Undefined,
     whereClause |-> Undefined, query |-> Undefined, limit |-> 10,
     objective |-> Undefined, analysisGoal |-> Undefined, database |-> Undefined]

EnvHandlers ==
    {"tables-list", "table-schema", "table-schema/list", "table-details",
     "table-details/list", "table-stats", "table-stats/list", "execute-query",
     "get-sample-data", "count-rows", "column-stats", "explore-table",
     "generate-query", "analyze-query-results", "optimize-query"}

UrlHandlers == {"databases", "databases/list", "schema", "schema/list"}

\* The handlers of the pipelined workload: one with a single query, one with
\* two in a row, and the one that starts a query per table at once.
PipelinedHandlers ==
    {"execute-query", "table-stats", "generate-query", "schema", "schema/list"}

Handlers ==
    (IF variant = "env" THEN EnvHandlers ELSE UrlHandlers)
    \cap (IF workload = "pipelined" THEN PipelinedHandlers ELSE EnvHandlers \cup UrlHandlers)

\* The arguments a handler may be called with.
Inputs(h) ==
    CASE h \in {"table-schema", "table-details", "table-stats"} ->
            {[NoArgs EXCEPT !.tableName = tn] : tn \in ResourceNameInputs}
      [] h = "explore-table" ->
            {[NoArgs EXCEPT !.tableName = tn] : tn \in IdentifierInputs}
      [] h = "execute-query" \/ h = "optimize-query" ->
            {[NoArgs EXCEPT !.query = q] : q \in QueryInputs}
      [] h = "analyze-query-results" ->
            {[NoArgs EXCEPT !.query = q, !.analysisGoal = goalText] : q \in QueryInputs}
      [] h = "get-sample-data" ->
            {[NoArgs EXCEPT !.tableName = tn, !.orderBy = ob, !.limit = n] :
                tn \in IdentifierInputs, ob \in IdentifierInputs \cup {Undefined},
                n \in LimitInputs}
      [] h = "count-rows" ->
            {[NoArgs EXCEPT !.tableName = tn, !.whereClause = wc] :
                tn \in IdentifierInputs, wc \in WhereInputs}
      [] h = "column-stats" ->
            {[NoArgs EXCEPT !.tableName = tn, !.columnName = cn] :
                tn \in IdentifierInputs, cn \in IdentifierInputs}
      [] h = "generate-query" -> {[NoArgs EXCEPT !.objective = goalText]}
      [] h = "databases" ->
            {[NoArgs EXCEPT !.database = db] : db \in ResourceNameInputs}
      [] h = "schema" ->
            {[NoArgs EXCEPT !.database = db, !.tableName = tn] :
                db \in {<<"d">>}, tn \in ResourceNameInputs}
      [] OTHER -> {NoArgs}

\* Declared types information_schema.columns may report for a column.
ColumnTypes ==
    IF workload = "sequential"
    THEN {<<"i","n","t","4">>, <<"I","N","T","4">>,
          <<"t","i","m","e","s","t","a","m","p">>,
          <<"v","a","r","c","h","a","r">>,
          <<"T","I","M","E","S","T","A","M","P">>}
    ELSE {<<"i","n","t","4">>}

\* The first n table names of the catalog.
tablesOf(n) == [k \in 1..n |-> <<"t", Digits[k + 1]>>]

\* ------------------------------------------------------------------------
\* Connection Gateway: what each helper hands to executeQuery
\* ------------------------------------------------------------------------

\* One executeQuery(query, params) call (client.query(text, values) in the
\* URL-configured server); idents lists the caller-supplied names spliced
\* into the text by a template literal.
Call(sql, params, idents) == [sql |-> sql, params |-> params, idents |-> idents]

getAllTables == <<Call(allTablesQuery, <<>>, <<>>)>>

getTableSchema(tableName) == <<Call(tableSchemaQuery, <<tableName>>, <<>>)>>

getTableDetails(tableName) ==
    getTableSchema(tableName)
    \o <<Call(indexQuery, <<tableName>>, <<>>),
         Call(pkQuery, <<pkParam(tableName)>>, <<>>)>>

getTableStats(tableName) ==
    <<Call(countQuery(tableName), <<>>, <<tableName>>),
      Call(sizeQuery, <<sizeParam(tableName)>>, <<>>)>>

\* get-sample-data: the text built at server.ts:206-216.
sampleQuery(tableName, orderBy, limit) ==
    sampleSelect(tableName)
    \o (IF truthy(orderBy) THEN sampleOrderBy(orderBy) ELSE <<>>)
    \o sampleLimit(numberToString(limit))

\* count-rows: the text built at server.ts:252-257.
countRowsQuery(tableName, whereClause) ==
    countRowsSelect(tableName)
    \o (IF truthy(whereClause) THEN countRowsWhere(whereClause) ELSE <<>>)

\* column-stats: the statsQuery of the branch the declared type selects.
statsQuery(tableName, columnName, dataType) ==
    CASE statsBranch(dataType) = "numeric" -> statsQueryNumeric(tableName, columnName)
      [] statsBranch(dataType) = "temporal" -> statsQueryTemporal(tableName, columnName)
      [] OTHER -> statsQueryFallback(tableName, columnName)

\* The database names the fields of a result row after the select list:
\* the word that follows each " as " of the text.
selectAliases(sql) ==
    {SubSeq(sql, p + 4, classRun(sql, p + 4) - 1) :
        p \in {q \in 1..(Len(sql) - 4) : SubSeq(sql, q, q + 3) = <<" ", "a", "s", " ">>}}

\* The one row an aggregate query without GROUP BY returns, every field of
\* it holding value.
aggregateRow(sql, value) == [a \in selectAliases(sql) |-> value]

\* Values COUNT(*) may take in the null-count row (the driver hands a bigint
\* over as text).
NullCounts == {"0", "2"}

nullCountKey == <<"n","u","l","l","_","c","o","u","n","t">>

dataTypeKey == <<"d","a","t","a","_","t","y","p","e">>

\* A plausible slip: null_count read from the aggregate row's count.
mergeStatsCountAsNull(statsRow, nullRow, dataType) ==
    [k \in DOMAIN statsRow \cup {nullCountKey, dataTypeKey} |->
        IF k = dataTypeKey THEN dataType
        ELSE IF k = nullCountKey THEN statsRow[<<"c","o","u","n","t">>]
        ELSE statsRow[k]]

\* column-stats: { ...statsResult[0], null_count: nullResult[0].null_count,
\* data_type: dataType }; a later key replaces an earlier one of its name.
mergeStats(statsRow, nullRow, dataType) ==
    [k \in DOMAIN statsRow \cup {nullCountKey, dataTypeKey} |->
        IF k = dataTypeKey THEN dataType
        ELSE IF k = nullCountKey THEN nullRow[nullCountKey]
        ELSE statsRow[k]]

\* The executeQuery calls a handler makes, in order, when every one succeeds.
\* (generate-query continues with one getTableSchema per table, all at once.)
Script(rec) ==
    LET a == rec.args
    IN  CASE rec.h \in {"tables-list", "table-schema/list", "table-details/list",
                        "table-stats/list", "generate-query"} -> getAllTables
          [] rec.h = "table-schema" -> getTableSchema(a.tableName)
          [] rec.h = "table-details" -> getTableDetails(a.tableName)
          [] rec.h = "table-stats" -> getTableStats(a.tableName)
          [] rec.h \in {"execute-query", "analyze-query-results"} ->
                <<Call(a.query, <<>>, <<>>)>>
          [] rec.h = "get-sample-data" ->
                <<Call(sampleQuery(a.tableName, a.orderBy, a.limit), <<>>,
                       <<a.tableName>>
                       \o (IF truthy(a.orderBy) THEN <<a.orderBy>> ELSE <<>>))>>
          [] rec.h = "count-rows" ->
                <<Call(countRowsQuery(a.tableName, a.whereClause), <<>>,
                       <<a.tableName>>)>>
          [] rec.h = "column-stats" ->
                <<Call(schemaQuery, <<a.tableName, a.columnName>>, <<>>),
                  Call(statsQuery(a.tableName, a.columnName, rec.dataType), <<>>,
                       <<a.tableName, a.columnName>>),
                  Call(nullQuery(a.tableName, a.columnName), <<>>,
                       <<a.tableName, a.columnName>>)>>
          [] rec.h = "explore-table" ->
                getTableSchema(a.tableName)
                \o <<Call(sampleDataQuery(a.tableName), <<>>, <<a.tableName>>)>>
                \o getTableStats(a.tableName)
          [] rec.h = "databases/list" -> <<Call(databasesListQuery, <<>>, <<>>)>>
          [] rec.h = "databases" -> <<Call(databaseReadQuery, <<a.database>>, <<>>)>>
          [] rec.h = "schema/list" -> <<Call(schemaListQuery, <<>>, <<>>)>>
          [] rec.h = "schema" -> <<Call(schemaReadQuery, <<a.tableName>>, <<>>)>>
          [] OTHER -> <<>>

\* ------------------------------------------------------------------------
\* Handlers
\* ------------------------------------------------------------------------

IdleInv ==
    [h |-> "none", args |-> NoArgs, step |-> 0, tasks |-> <<>>, calls |-> <<>>,
     results |-> <<>>, dataType |-> Undefined, resp |-> NoResponse,
     acquires |-> 0, releases |-> 0]

\* What a handler returns before its first await, if it returns there:
\* the classifier's and the sanitizer's rejections, and optimize-query.
Prefix(h, a) ==
    CASE h = "execute-query" ->
            IF ~isSelect(a.query) THEN toolError(selectOnlyText) ELSE NoResponse
      [] h = "get-sample-data" ->
            IF ~identifierTest(a.tableName)
            THEN toolError(sampleDataErrorText(errorMessage("Invalid table name")))
            ELSE IF truthy(a.orderBy) /\ ~identifierTest(a.orderBy)
            THEN toolError(sampleDataErrorText(errorMessage("Invalid order by column")))
            ELSE NoResponse
      [] h = "count-rows" ->
            IF ~identifierTest(a.tableName)
            THEN toolError(countRowsErrorText(errorMessage("Invalid table name")))
            ELSE NoResponse
      [] h = "column-stats" ->
            IF ~identifierTest(a.tableName) \/ ~identifierTest(a.columnName)
            THEN toolError(columnStatsErrorText(
                     errorMessage("Invalid table or column name")))
            ELSE NoResponse
      [] h = "analyze-query-results" ->
            IF ~isSelect(a.query)
            THEN promptMessage("Failure", analyzeRejectionText(a.query, a.analysisGoal))
            ELSE NoResponse
      [] h = "optimize-query" -> promptMessage("Success", optimizeQueryText(a.query))
      [] OTHER -> NoResponse

\* The handler's catch block; a handler without one lets the error out.
Failure(rec, message) ==
    LET a == rec.args
    IN  CASE rec.h = "tables-list" -> resourceErrorContents(tablesListErrorText(message))
          [] rec.h = "table-schema" ->
                resourceErrorContents(tableSchemaErrorText(a.tableName, message))
          [] rec.h = "table-details" ->
                resourceErrorContents(tableDetailsErrorText(a.tableName, message))
          [] rec.h = "table-stats" ->
                resourceErrorContents(tableStatsErrorText(a.tableName, message))
          [] rec.h = "execute-query" -> toolError(executeQueryErrorText(message))
          [] rec.h = "get-sample-data" -> toolError(sampleDataErrorText(message))
          [] rec.h = "count-rows" -> toolError(countRowsErrorText(message))
          [] rec.h = "column-stats" -> toolError(columnStatsErrorText(message))
          [] rec.h = "explore-table" ->
                promptMessage("Failure", exploreTableErrorText(a.tableName, message))
          [] rec.h = "generate-query" ->
                promptMessage("Failure", generateQueryErrorText(a.objective, message))
          [] rec.h = "analyze-query-results" ->
                promptMessage("Failure",
                              analyzeErrorText(a.query, a.analysisGoal, message))
          [] OTHER -> thrown(message)

\* The handler's return value once its last query has returned.
Success(rec) ==
    LET a == rec.args
        r == rec.results
    IN  CASE rec.h \in {"tables-list", "table-schema", "databases", "schema"} ->
                resourceContents(<<[json |-> r[1]]>>)
          [] rec.h = "table-details" ->
                resourceContents(<<[json |-> [columns |-> r[1], indexes |-> r[2],
                                             primaryKeys |-> r[3]]]>>)
          [] rec.h = "table-stats" ->
                resourceContents(<<[json |-> [rowCount |-> r[1], tableSize |-> r[2]]]>>)
          [] rec.h \in {"table-schema/list", "table-details/list", "table-stats/list",
                        "databases/list", "schema/list"} -> listResult(r[1])
          [] rec.h \in {"execute-query", "get-sample-data"} ->
                toolResult(<<[json |-> r[1]]>>)
          [] rec.h = "count-rows" ->
                toolResult(countRowsText(a.tableName, r[1],
                    IF truthy(a.whereClause)
                    THEN <<[lit |-> " matching the condition"]>> ELSE <<>>))
          [] rec.h = "column-stats" ->
                toolResult(<<[json |-> mergeStats(r[2][1], r[3][1], rec.dataType)]>>)
          [] rec.h = "explore-table" ->
                promptMessage("Success",
                    exploreTableText(a.tableName, r[1], r[2],
                                     [rowCount |-> r[3], tableSize |-> r[4]]))
          [] rec.h = "generate-query" ->
                promptMessage("Success",
                    generateQueryText(a.objective, r[1], SubSeq(r, 2, Len(r))))
          [] rec.h = "analyze-query-results" ->
                promptMessage("Success", analyzeText(a.query, r[1], a.analysisGoal))
          [] OTHER -> NoResponse

\* The rows the database may return to the query a task is running.
QueryResults(rec) ==
    CASE rec.h = "column-stats" /\ rec.step = 1 ->
            {<<>>} \cup {<<[data_type |-> ty]>> : ty \in ColumnTypes}
      [] rec.h = "column-stats" /\ rec.step = 2 ->
            {<<aggregateRow(rec.calls[2].sql, "value")>>}
      [] rec.h = "column-stats" /\ rec.step = 3 ->
            {<<aggregateRow(rec.calls[3].sql, n)>> : n \in NullCounts}
      [] rec.step = 1 /\ rec.h \in {"tables-list", "table-schema/list",
             "table-details/list", "table-stats/list", "generate-query"} ->
            {tablesOf(n) : n \in IF workload = "pipelined" THEN {MaxTables}
                                 ELSE 0..MaxTables}
      [] OTHER -> {<<"row">>}

\* A plausible slip: a handler keeping its first client for its later
\* queries, which then skip pool.connect().
IssueOnHeldClient(rec) ==
    [rec EXCEPT !.step = @ + 1,
                !.calls = Append(@, Script(rec)[rec.step + 1]),
                !.tasks = IF rec.acquires > 0 THEN <<"query">> ELSE <<"connect">>]

\* The handler calls executeQuery: the call reaches the Gateway, which starts
\* with pool.connect().
Issue(rec) ==
    [rec EXCEPT !.step = @ + 1,
                !.calls = Append(@, Script(rec)[rec.step + 1]),
                !.tasks = <<"connect">>]

\* The handler is called: it runs to its first await or to its return.
Start(h, a) ==
    LET rec == [IdleInv EXCEPT !.h = h, !.args = a]
    IN  IF Prefix(h, a) # NoResponse
        THEN [rec EXCEPT !.resp = Prefix(h, a)]
        ELSE Issue(rec)

\* generate-query: Promise.all over tables.map(getTableSchema): every call
\* starts at once.
FanOut(rec, tables) ==
    [rec EXCEPT !.step = 2,
                !.calls = @ \o [k \in 1..Len(tables) |-> getTableSchema(tables[k])[1]],
                !.tasks = [k \in 1..Len(tables) |-> "connect"]]

\* A plausible slip: column-stats reading schemaResult[0].data_type without
\* the length check, so that an empty lookup ends in the catch with the
\* TypeError's message.
OnResultUnchecked(rec, k, rows) ==
    LET got == [rec EXCEPT !.tasks[k] = "ok", !.results = Append(@, rows)]
    IN  IF rec.h = "generate-query" /\ rec.step = 2
        THEN IF \A j \in DOMAIN got.tasks : got.tasks[j] = "ok"
             THEN [got EXCEPT !.resp = Success(got)]
             ELSE got
        ELSE IF rec.h = "generate-query" /\ rows # <<>>
        THEN FanOut(got, rows)
        ELSE IF rec.h = "column-stats" /\ rec.step = 1 /\ Len(rows) = 0
        THEN [got EXCEPT !.resp =
                 Failure(got, errorMessage("Cannot read properties of undefined"))]
        ELSE IF rec.h = "column-stats" /\ rec.step = 1
        THEN Issue([got EXCEPT !.dataType = rows[1].data_type])
        ELSE IF rec.step < Len(Script(got))
        THEN Issue(got)
        ELSE [got EXCEPT !.resp = Success(got)]

\* Task k's executeQuery returned rows: the handler goes on after its await.
OnResult(rec, k, rows) ==
    LET got == [rec EXCEPT !.tasks[k] = "ok", !.results = Append(@, rows)]
    IN  IF rec.h = "generate-query" /\ rec.step = 2
        THEN IF \A j \in DOMAIN got.tasks : got.tasks[j] = "ok"
             THEN [got EXCEPT !.resp = Success(got)]
             ELSE got
        ELSE IF rec.h = "generate-query" /\ rows # <<>>
        THEN FanOut(got, rows)
        ELSE IF rec.h = "column-stats" /\ rec.step = 1 /\ Len(rows) = 0
        THEN [got EXCEPT !.resp =
                 Failure(got, columnNotFoundMessage(rec.args.columnName,
                                                    rec.args.tableName))]
        ELSE IF rec.h = "column-stats" /\ rec.step = 1
        THEN Issue([got EXCEPT !.dataType = rows[1].data_type])
        ELSE IF rec.step < Len(Script(got))
        THEN Issue(got)
        ELSE [got EXCEPT !.resp = Success(got)]

\* Task k's executeQuery threw: the first error settles the handler (its catch
\* block, or the rejection of its promise); later ones find it settled.
OnError(rec, k, message) ==
    LET got == [rec EXCEPT !.tasks[k] = "failed"]
    IN  IF rec.resp = NoResponse
        THEN [got EXCEPT !.resp = Failure(got, message)]
        ELSE got

\* A plausible slip: client.release() after the query instead of in finally.
releasedWithoutFinally(ok) == IF ok THEN 1 ELSE 0

\* executeQuery's try/finally: client.release() runs once, whether client.query
\* returned (ok) or threw.
released(ok) == 1

Pending(rec) == {k \in DOMAIN rec.tasks : rec.tasks[k] \in {"connect", "query"}}

\* ------------------------------------------------------------------------
\* Actions
\* ------------------------------------------------------------------------

NoProbe == [fn |-> "none", input |-> <<>>, output |-> "none"]

\* ------------------------------------------------------------------------
\* The server process
\* ------------------------------------------------------------------------

\* process.argv.slice(2) of the URL-configured server: no argument, a database
\* URL, or an argument new URL() cannot parse. The environment-configured
\* server reads process.env with defaults and takes no argument.
ArgvInputs == {"none", "url", "not-a-url"}

\* The process as node starts it: nothing of the module has run.
ProcessStart(argv) ==
    [phase |-> "start", argv |-> argv, stderr |-> <<>>, status |-> "running",
     pool |-> FALSE, registered |-> FALSE, transport |-> "none",
     startupTest |-> "none"]

\* The process once the transport is connected: start-up is over. The
\* environment-configured server has logged that it runs, and its start-up
\* connection test has settled one way or the other.
ProcessServing(v, test) ==
    [phase |-> "serving", argv |-> IF v = "url" THEN "url" ELSE "none",
     stderr |-> IF v = "url" THEN <<>>
                ELSE <<IF test = "ok" THEN "Database connection successful"
                       ELSE "Database connection error:",
                       "CockroachDB MCP Server running on stdio">>,
     status |-> "running", pool |-> TRUE, registered |-> TRUE,
     transport |-> "connected", startupTest |-> test]

\* The handlers answer requests: the transport is connected and the process
\* has not exited.
Serving == proc.transport = "connected" /\ proc.status = "running"

\* ------------------------------------------------------------------------
\* Actions
\* ------------------------------------------------------------------------

\* The host sends a request: the SDK calls the handler registered for it.
Invoke(i) ==
    /\ Serving
    /\ inv[i] = IdleInv
    /\ workload = "sequential" => i = 1
    /\ \E h \in Handlers : \E a \in Inputs(h) :
          inv' = [inv EXCEPT ![i] = Start(h, a)]
    /\ UNCHANGED <<variant, workload, poolOut, proc, reach, probe>>

\* pool.connect() resolves with a client, once the pool has one to give and
\* the database answers.
Connect(i, k) ==
    /\ k \in DOMAIN inv[i].tasks
    /\ inv[i].tasks[k] = "connect"
    /\ poolOut < PoolSize
    /\ reach = "up"
    /\ poolOut' = poolOut + 1
    /\ inv' = [inv EXCEPT ![i].tasks[k] = "query", ![i].acquires = @ + 1]
    /\ UNCHANGED <<variant, workload, proc, reach, probe>>

\* pool.connect() rejects: the pool, below its size, tried to open a connection
\* and the database could not be reached. No client was leased.
ConnectFail(i, k) ==
    /\ k \in DOMAIN inv[i].tasks
    /\ inv[i].tasks[k] = "connect"
    /\ poolOut < PoolSize
    /\ reach = "down"
    /\ inv' = [inv EXCEPT ![i] = OnError(inv[i], k, connectError)]
    /\ UNCHANGED <<variant, workload, poolOut, proc, reach, probe>>

\* client.query() resolves; finally releases the client; the rows go back.
QueryReturn(i, k) ==
    /\ k \in DOMAIN inv[i].tasks
    /\ inv[i].tasks[k] = "query"
    /\ reach = "up"
    /\ poolOut' = poolOut - released(TRUE)
    /\ \E rows \in QueryResults(inv[i]) :
          inv' = [inv EXCEPT ![i] =
                     OnResult([inv[i] EXCEPT !.releases = @ + released(TRUE)], k, rows)]
    /\ UNCHANGED <<variant, workload, proc, reach, probe>>

\* client.query() rejects (the statement is refused, or the connection is
\* lost); finally releases the client; the error goes on.
QueryFail(i, k) ==
    /\ k \in DOMAIN inv[i].tasks
    /\ inv[i].tasks[k] = "query"
    /\ poolOut' = poolOut - released(FALSE)
    /\ inv' = [inv EXCEPT ![i] =
                  OnError([inv[i] EXCEPT !.releases = @ + released(FALSE)], k, queryError)]
    /\ UNCHANGED <<variant, workload, proc, reach, probe>>

\* The response has gone to the host and nothing of the invocation is left
\* running: the slot takes the next request.
Retire(i) ==
    /\ inv[i].resp # NoResponse
    /\ Pending(inv[i]) = {}
    /\ inv' = [inv EXCEPT ![i] = IdleInv]
    /\ UNCHANGED <<variant, workload, poolOut, proc, reach, probe>>

\* The database becomes unreachable, or reachable again.
Reachability ==
    /\ reach' = IF reach = "up" THEN "down" ELSE "up"
    /\ UNCHANGED <<variant, workload, inv, poolOut, proc, probe>>

Next ==
    \/ Reachability
    \/ \E i \in Slots :
          \/ Invoke(i)
          \/ Retire(i)
          \/ \E k \in 1..MaxTables :
                \/ Connect(i, k)
                \/ ConnectFail(i, k)
                \/ QueryReturn(i, k)
                \/ QueryFail(i, k)

\* The server after start-up: transport connected, no request in flight, no
\* client out of the pool.
InitServer(w) ==
    /\ variant \in {"env", "url"}
    /\ workload = w
    /\ inv = [i \in Slots |-> IdleInv]
    /\ poolOut = 0
    /\ proc \in {ProcessServing(variant, test) :
                    test \in IF variant = "url" THEN {"none"}
                             ELSE IF w = "sequential" THEN {"ok", "failed"}
                             ELSE {"ok"}}
    /\ reach \in {"up", "down"}
    /\ probe = NoProbe

\* One request at a time, with every input of the model.
Init == InitServer("sequential")

Spec == Init /\ [][Next]_vars

\* MaxInFlight requests at once, with plain inputs.
InitPipelined == InitServer("pipelined")

SpecPipelined == InitPipelined /\ [][Next]_vars

\* ------------------------------------------------------------------------
\* Start-up of the process
\* ------------------------------------------------------------------------

\* console.error(...): a line on the error stream.
consoleError(p, line) == [p EXCEPT !.stderr = Append(@, line)]

\* A plausible slip: the diagnostic printed and the exit forgotten, so the
\* module runs on.
exitOmitted(p) == [p EXCEPT !.phase = "checked"]

\* process.exit(1), or an exception no one catches at the top of the module:
\* the process ends with status 1 and runs nothing further.
exitOne(p) == [p EXCEPT !.status = "exit(1)", !.phase = "exited"]

\* URL-configured server, the top of the module: without an argument it
\* prints the diagnostic and exits; new URL(databaseUrl) throws on a text
\* that is no URL, and nothing catches it.
CheckArgs ==
    /\ variant = "url"
    /\ proc.phase = "start"
    /\ proc' =
          CASE proc.argv = "none" ->
                  exitOne(consoleError(proc,
                      "Please provide a database URL as a command-line argument"))
            [] proc.argv = "not-a-url" ->
                  exitOne(consoleError(proc, "TypeError: Invalid URL"))
            [] OTHER -> [proc EXCEPT !.phase = "checked"]
    /\ UNCHANGED <<variant, workload, inv, poolOut, reach, probe>>

\* new Pool(...). The environment-configured server's db.js goes straight on
\* to pool.connect(), its start-up connection test.
CreatePool ==
    /\ proc.phase = IF variant = "url" THEN "checked" ELSE "start"
    /\ proc' = [proc EXCEPT !.phase = "pool", !.pool = TRUE,
                            !.startupTest = IF variant = "env" THEN "pending" ELSE "none"]
    /\ UNCHANGED <<variant, workload, inv, poolOut, reach, probe>>

\* server.resource / server.tool / server.prompt: the handlers are registered.
Register ==
    /\ proc.phase = "pool"
    /\ proc' = [proc EXCEPT !.phase = "registered", !.registered = TRUE]
    /\ UNCHANGED <<variant, workload, inv, poolOut, reach, probe>>

\* await server.connect(new StdioServerTransport()): requests can arrive.
ConnectTransport ==
    /\ proc.phase = "registered"
    /\ proc' =
          LET p == [proc EXCEPT !.phase = "serving", !.transport = "connected"]
          IN  IF variant = "env"
              THEN consoleError(p, "CockroachDB MCP Server running on stdio")
              ELSE p
    /\ UNCHANGED <<variant, workload, inv, poolOut, reach, probe>>

\* The start-up test's pool.connect() resolves: .then logs and releases the
\* client at once.
StartupTestOk ==
    /\ proc.startupTest = "pending"
    /\ poolOut < PoolSize
    /\ reach = "up"
    /\ proc' = [consoleError(proc, "Database connection successful")
                  EXCEPT !.startupTest = "ok"]
    /\ UNCHANGED <<variant, workload, inv, poolOut, reach, probe>>

\* A plausible slip: the start-up test's catch ending the process.
StartupTestFailFatal ==
    /\ proc.startupTest = "pending"
    /\ poolOut < PoolSize
    /\ reach = "down"
    /\ proc' = exitOne([consoleError(proc, "Database connection error:")
                          EXCEPT !.startupTest = "failed"])
    /\ UNCHANGED <<variant, workload, inv, poolOut, reach, probe>>

\* The start-up test's pool.connect() rejects: .catch logs the error, and
\* that is all it does.
StartupTestFail ==
    /\ proc.startupTest = "pending"
    /\ poolOut < PoolSize
    /\ reach = "down"
    /\ proc' = [consoleError(proc, "Database connection error:")
                  EXCEPT !.startupTest = "failed"]
    /\ UNCHANGED <<variant, workload, inv, poolOut, reach, probe>>

Startup ==
    \/ CheckArgs
    \/ CreatePool
    \/ Register
    \/ ConnectTransport
    \/ StartupTestOk
    \/ StartupTestFail

\* node starts the process: nothing of the module has run yet.
InitStartup ==
    /\ variant \in {"env", "url"}
    /\ workload = "sequential"
    /\ inv = [i \in Slots |-> IdleInv]
    /\ poolOut = 0
    /\ proc \in {ProcessStart(a) :
                    a \in IF variant = "url" THEN ArgvInputs ELSE {"none"}}
    /\ reach \in {"up", "down"}
    /\ probe = NoProbe

NextStartup == Startup \/ Next

SpecStartup == InitStartup /\ [][NextStartup]_vars

\* ------------------------------------------------------------------------
\* Progress
\* ------------------------------------------------------------------------

\* What the driver and the pool are taken to guarantee: a pool.connect() that
\* can be served again and again is served in the end (the pool queues its
\* waiters first come, first served), and a client.query() settles in the end.
Fairness ==
    \A i \in Slots : \A k \in 1..MaxTables :
        /\ SF_vars(Connect(i, k) \/ ConnectFail(i, k))
        /\ WF_vars(QueryReturn(i, k) \/ QueryFail(i, k))

SpecPipelinedFair == InitPipelined /\ [][Next]_vars /\ Fairness


\* ------------------------------------------------------------------------
\* The pure functions on their own: one input, the function applied to it
\* ------------------------------------------------------------------------

ServerAtRest ==
    /\ variant = "env"
    /\ workload = "sequential"
    /\ inv = [i \in Slots |-> IdleInv]
    /\ poolOut = 0
    /\ proc = ProcessServing("env", "ok")
    /\ reach = "up"

\* Characters of the names tried on the identifier test.
IdentifierAlphabet == {"a", "Z", "7", "_", "\"", "'", ";", " ", "\n", "-"}

InitSanitizer ==
    /\ ServerAtRest
    /\ probe \in {[fn |-> "identifierTest", input |-> s, output |-> "pending"] :
                     s \in StringsUpTo(IdentifierAlphabet, MaxIdLen)}

ApplySanitizer ==
    /\ probe.fn = "identifierTest"
    /\ probe.output = "pending"
    /\ probe' = [probe EXCEPT !.output =
                    IF identifierTest(probe.input) THEN "accept" ELSE "reject"]
    /\ UNCHANGED <<variant, workload, inv, poolOut, proc, reach>>

SpecSanitizer == InitSanitizer /\ [][ApplySanitizer]_vars

\* Query texts tried on the SELECT check: white space, a first word, a rest.
QueryCores ==
    {<<"s","e","l","e","c","t">>,
     <<"S","E","L","E","C","T">>,
     <<"S","e","L","e","C","t">>,
     <<"s","e","l","e","c">>,
     <<"s","e","l","e","c","t","s">>,
     <<"s"," ","e","l","e","c","t">>,
     <<"u","p","d","a","t","e"," ","t"," ","s","e","t"," ","x","=","1">>,
     <<"-","-"," ","s","e","l","e","c","t","\n","u","p","d","a","t","e"," ",
       "t">>,
     <<"D","R","O","P"," ","T","A","B","L","E"," ","o","r","d","e","r","s">>,
     <<"w","i","t","h"," ","x"," ","a","s"," ","(","s","e","l","e","c","t",
       " ","1",")"," ","s","e","l","e","c","t">>,
     <<"(","s","e","l","e","c","t"," ","1",")">>,
     <<>>}

QueryTails ==
    {<<>>, <<" ","1">>, <<";","d","r","o","p"," ","t","a","b","l","e"," ","t">>, <<" ","\n">>}

InitClassifier ==
    /\ ServerAtRest
    /\ probe \in {[fn |-> "isSelect", input |-> pad \o core \o tail,
                   output |-> "pending"] :
                     pad \in StringsUpTo({" ", "\n", "\t"}, MaxPad),
                     core \in QueryCores, tail \in QueryTails}

ApplyClassifier ==
    /\ probe.fn = "isSelect"
    /\ probe.output = "pending"
    /\ probe' = [probe EXCEPT !.output =
                    IF isSelect(probe.input) THEN "ReadOnly" ELSE "WriteOrOther"]
    /\ UNCHANGED <<variant, workload, inv, poolOut, proc, reach>>

SpecClassifier == InitClassifier /\ [][ApplyClassifier]_vars

\* Declared types tried on the statistics dispatch: type names of the
\* database, and every short string over a few letters of the needles.
TypeNames ==
    {<<"i","n","t","4">>,
     <<"I","N","T","4">>,
     <<"t","i","m","e","s","t","a","m","p">>,
     <<"T","I","M","E","S","T","A","M","P">>,
     <<"v","a","r","c","h","a","r">>,
     <<"V","A","R","C","H","A","R">>,
     <<"n","u","m","e","r","i","c">>,
     <<"N","U","M","E","R","I","C">>,
     <<"d","e","c","i","m","a","l">>,
     <<"f","l","o","a","t","8">>,
     <<"d","a","t","e">>,
     <<"t","i","m","e">>,
     <<"i","n","t","e","r","v","a","l">>,
     <<"d","o","u","b","l","e"," ","p","r","e","c","i","s","i","o","n">>,
     <<"r","e","a","l">>,
     <<"t","e","x","t">>,
     <<"b","o","o","l">>,
     <<"b","i","g","i","n","t">>,
     <<"c","h","a","r","a","c","t","e","r"," ","v","a","r","y","i","n","g">>,
     <<"t","i","m","e","s","t","a","m","p","t","z">>,
     <<"I","N","T","8">>,
     <<"S","T","R","I","N","G">>,
     <<"p","o","i","n","t">>}

TypeAlphabet == {"i", "n", "t", "I", "d", "a", "e", "m"}

InitStats ==
    /\ ServerAtRest
    /\ probe \in {[fn |-> "statsBranch", input |-> s, output |-> "pending"] :
                     s \in TypeNames \cup StringsUpTo(TypeAlphabet, MaxTypeLen)}

ApplyStats ==
    /\ probe.fn = "statsBranch"
    /\ probe.output = "pending"
    /\ probe' = [probe EXCEPT !.output = statsBranch(probe.input)]
    /\ UNCHANGED <<variant, workload, inv, poolOut, proc, reach>>

SpecStats == InitStats /\ [][ApplyStats]_vars

\* ------------------------------------------------------------------------
\* Vocabulary of the properties, stated without the model's own functions
\* ------------------------------------------------------------------------

\* The ASCII letters, the digits and the underscore, written out.
AsciiWordChars ==
    {"a","b","c","d","e","f","g","h","i","j","k","l","m","n","o","p","q",
       "r","s","t","u","v","w","x","y","z","A","B","C","D","E","F","G","H",
       "I","J","K","L","M","N","O","P","Q","R","S","T","U","V","W","X","Y",
       "Z","0","1","2","3","4","5","6","7","8","9","_"}

\* A non-empty string of ASCII letters, digits and underscores only.
IsAsciiWord(s) == Len(s) > 0 /\ \A i \in DOMAIN s : s[i] \in AsciiWordChars

\* The two spellings of each letter of "select".
SelectLetters ==
    <<{"s", "S"}, {"e", "E"}, {"l", "L"}, {"e", "E"}, {"c", "C"}, {"t", "T"}>>

\* After k characters of white space, s goes on with "select" in any case.
SelectLeading(s) ==
    \E k \in 0..Len(s) :
        /\ \A i \in 1..k : s[i] \in {" ", "\t", "\n", "\r", "\f"}
        /\ Len(s) >= k + 6
        /\ \A j \in 1..6 : s[k + j] \in SelectLetters[j]

\* needle occurs in s at some offset, character for character.
Contains(s, needle) ==
    \E k \in 0..(Len(s) - Len(needle)) :
        \A j \in 1..Len(needle) : s[k + j] = needle[j]

\* The branch the three-way rule names for a type spelled ty.
BranchByContainment(ty) ==
    IF \/ Contains(ty, <<"i", "n", "t">>)
       \/ Contains(ty, <<"f", "l", "o", "a", "t">>)
       \/ Contains(ty, <<"d", "e", "c", "i", "m", "a", "l">>)
       \/ Contains(ty, <<"n", "u", "m", "e", "r", "i", "c">>)
    THEN "numeric"
    ELSE IF Contains(ty, <<"d", "a", "t", "e">>) \/ Contains(ty, <<"t", "i", "m", "e">>)
    THEN "temporal"
    ELSE "fallback"

IsBlank(s) == \A i \in DOMAIN s : s[i] \in {" ", "\t", "\n", "\r", "\f"}

\* The semicolons of an SQL text that end a statement: those outside a quoted
\* identifier (an even number of double quotes before them).
Separators(sql) ==
    {i \in DOMAIN sql :
        /\ sql[i] = ";"
        /\ Cardinality({j \in 1..(i - 1) : sql[j] = "\""}) % 2 = 0}

\* The statement of the text that starts at position first.
StatementAt(sql, first) ==
    LET ends == {i \in Separators(sql) : i >= first} \cup {Len(sql) + 1}
        last == CHOOSE e \in ends : \A f \in ends : e <= f
    IN  SubSeq(sql, first, last - 1)

\* The text is a SELECT and holds no further statement that is not one.
SelectOnly(sql) ==
    /\ SelectLeading(StatementAt(sql, 1))
    /\ \A i \in Separators(sql) :
          IsBlank(StatementAt(sql, i + 1)) \/ SelectLeading(StatementAt(sql, i + 1))

Responded(rec) == rec.resp # NoResponse

\* A task of the invocation found its query or its pool.connect() failing.
GatewayFailed(rec) == \E k \in DOMAIN rec.tasks : rec.tasks[k] = "failed"

\* The argument fails the identifier pattern where the handler tests it.
IdentifierRejected(rec) ==
    \/ /\ rec.h \in {"get-sample-data", "count-rows", "column-stats"}
       /\ ~IsAsciiWord(rec.args.tableName)
    \/ /\ rec.h = "column-stats"
       /\ ~IsAsciiWord(rec.args.columnName)
    \/ /\ rec.h = "get-sample-data"
       /\ rec.args.orderBy \notin {Undefined, <<>>}
       /\ ~IsAsciiWord(rec.args.orderBy)

\* The type lookup of column-stats found no row.
ColumnNotFound(rec) ==
    rec.h = "column-stats" /\ Len(rec.results) >= 1 /\ rec.results[1] = <<>>

\* The invocation failed: a rejection, a missing column or a Gateway failure.
InvocationFailed(rec) ==
    \/ IdentifierRejected(rec)
    \/ rec.h = "execute-query" /\ ~SelectLeading(rec.args.query)
    \/ ColumnNotFound(rec)
    \/ GatewayFailed(rec)

ToolHandlers == {"execute-query", "get-sample-data", "count-rows", "column-stats"}

ResourceHandlers == {"tables-list", "table-schema", "table-details", "table-stats"}

\* No part of the text is result data.
NoResultData(text) == \A p \in DOMAIN text : "json" \notin DOMAIN text[p]

\* ------------------------------------------------------------------------
\* Properties
\* ------------------------------------------------------------------------

\* C1: an execute-query input that is not SELECT-leading gets the error
\* envelope with the literal rejection text and the error flag, and the
\* invocation hands nothing to the Gateway.
C1_NonSelectRejectedBeforeGateway ==
    \A i \in Slots :
        (inv[i].h = "execute-query" /\ ~SelectLeading(inv[i].args.query))
        => /\ inv[i].resp.kind = "tool"
           /\ inv[i].resp.isError
           /\ inv[i].resp.content =
                <<<<[lit |-> "Error: Only SELECT queries are allowed for security reasons."]>>>>
           /\ inv[i].calls = <<>>
           /\ inv[i].acquires = 0

\* C1 witness: execute-query("DROP TABLE orders") was rejected with no call.
C1_Witness ==
    \E i \in Slots :
        /\ inv[i].h = "execute-query"
        /\ inv[i].args.query = <<"D","R","O","P"," ","T","A","B","L","E"," ","o","r","d","e",
              "r","s">>
        /\ inv[i].resp.isError
        /\ inv[i].calls = <<>>

\* C2: the classifier answers ReadOnly exactly for the texts that, after
\* leading white space, begin with "select" in any letter case; so
\* "  SELECT 1" is ReadOnly, "update t set x=1" and "-- select\nupdate t"
\* are WriteOrOther.
C2_ClassifierIsSelectPrefix ==
    (probe.fn = "isSelect" /\ probe.output # "pending")
    => /\ (probe.output = "ReadOnly") <=> SelectLeading(probe.input)
       /\ probe.input = <<" "," ","S","E","L","E","C","T"," ","1">>
            => probe.output = "ReadOnly"
       /\ probe.input = <<"u","p","d","a","t","e"," ","t"," ","s","e","t"," ","x","=",
              "1">>
            => probe.output = "WriteOrOther"
       /\ probe.input = <<"-","-"," ","s","e","l","e","c","t","\n","u","p","d","a","t",
              "e"," ","t">>
            => probe.output = "WriteOrOther"

\* C2 witness: "  SELECT 1" has been classified ReadOnly.
C2_Witness ==
    /\ probe.fn = "isSelect"
    /\ probe.input = <<" "," ","S","E","L","E","C","T"," ","1">>
    /\ probe.output = "ReadOnly"

\* C3 (as claimed): in the environment-configured server every statement text
\* handed to the Gateway is a SELECT holding no further non-SELECT statement.
C3_GatewaySeesOnlySelect ==
    variant = "env"
    => \A i \in Slots : \A c \in DOMAIN inv[i].calls : SelectOnly(inv[i].calls[c].sql)

\* C4 (as claimed): every caller-supplied name spliced into a text handed to
\* the Gateway matches ^[A-Za-z0-9_]+$.
C4_InterpolatedNamesSanitized ==
    \A i \in Slots : \A c \in DOMAIN inv[i].calls :
        \A n \in DOMAIN inv[i].calls[c].idents : IsAsciiWord(inv[i].calls[c].idents[n])

\* C5 (amended): in get-sample-data, count-rows and column-stats, when the
\* table name, the column name or a non-empty order-by column fails the
\* pattern, the handler answers with an error envelope and the invocation
\* hands no query to the Gateway.
C5_RejectionShortCircuits ==
    \A i \in Slots :
        IdentifierRejected(inv[i])
        => /\ inv[i].resp.kind = "tool"
           /\ inv[i].resp.isError
           /\ inv[i].calls = <<>>
           /\ inv[i].acquires = 0

\* C5 witness: get-sample-data with a good table and the order-by column "t;"
\* was answered with an error and no call.
C5_Witness ==
    \E i \in Slots :
        /\ inv[i].h = "get-sample-data"
        /\ inv[i].args.tableName = <<"t">>
        /\ inv[i].args.orderBy = <<"t", ";">>
        /\ inv[i].resp.isError
        /\ inv[i].calls = <<>>

\* C5 (as claimed): the same for every supplied order-by column the pattern
\* rejects, the empty string included.
C5_AsClaimed ==
    \A i \in Slots :
        (\/ IdentifierRejected(inv[i])
         \/ /\ inv[i].h = "get-sample-data"
            /\ inv[i].args.orderBy # Undefined
            /\ ~IsAsciiWord(inv[i].args.orderBy))
        => /\ inv[i].resp.isError
           /\ inv[i].calls = <<>>

\* C6: the identifier test accepts a string exactly when it is non-empty and
\* each of its characters is an ASCII letter, a digit or the underscore.
C6_SanitizerMatchesWholeString ==
    (probe.fn = "identifierTest" /\ probe.output # "pending")
    => ((probe.output = "accept") <=> IsAsciiWord(probe.input))

\* C6 witness: "a;" (a good prefix, then a semicolon) has been rejected.
C6_Witness ==
    /\ probe.fn = "identifierTest"
    /\ probe.input = <<"a", ";">>
    /\ probe.output = "reject"

\* The leases an invocation holds: its tasks inside client.query().
Holding(rec) == {k \in DOMAIN rec.tasks : rec.tasks[k] = "query"}

\* C7 (amended): every lease is released on the path its query takes, and
\* none twice: an invocation has released all it acquired but the leases of
\* its queries still running, the pool has no other client out, and once
\* every query the invocations started has returned or failed, none is out.
C7_LeasesReleasedWhenQueriesReturn ==
    /\ \A i \in Slots :
          /\ inv[i].releases <= inv[i].acquires
          /\ inv[i].acquires - inv[i].releases = Cardinality(Holding(inv[i]))
    /\ poolOut = Cardinality({p \in Slots \X (1..MaxTables) : p[2] \in Holding(inv[p[1]])})
    /\ (\A i \in Slots : Pending(inv[i]) = {}) => poolOut = 0

\* C7 witness: an invocation whose second query failed has released both of
\* its leases and the pool has no client out.
C7_Witness ==
    \E i \in Slots :
        /\ GatewayFailed(inv[i])
        /\ inv[i].acquires = 2
        /\ inv[i].releases = 2
        /\ Pending(inv[i]) = {}
        /\ poolOut = 0

\* C7 (as claimed): whenever every invocation has returned its response, no
\* lease is outstanding.
C7_AsClaimed ==
    (\A i \in Slots : inv[i].h # "none" => Responded(inv[i])) => poolOut = 0

\* C8 (as claimed): no failure of pool.connect() or of the query leaves a
\* handler as a thrown exception.
C8_NoFailureEscapes ==
    \A i \in Slots : inv[i].resp.kind # "thrown"

C10_BranchByCaseSensitiveContainment ==
    (probe.fn = "statsBranch" /\ probe.output # "pending")
    => /\ probe.output = BranchByContainment(probe.input)
       /\ probe.input = <<"i","n","t","4">> => probe.output = "numeric"
       /\ probe.input = <<"t","i","m","e","s","t","a","m","p">>
            => probe.output = "temporal"
       /\ probe.input = <<"v","a","r","c","h","a","r">>
            => probe.output = "fallback"
       /\ probe.input \in {<<"I","N","T","4">>,
                           <<"T","I","M","E","S","T","A","M","P">>,
                           <<"V","A","R","C","H","A","R">>}
            => probe.output = "fallback"

\* C10 witness: the declared type "INT4" has been sent to the fallback branch.
C10_Witness ==
    /\ probe.fn = "statsBranch"
    /\ probe.input = <<"I","N","T","4">>
    /\ probe.output = "fallback"

\* C10 (as claimed): the containment test ignores letter case, so a type and
\* its upper-case spelling select the same branch.
C10_AsClaimed ==
    (probe.fn = "statsBranch" /\ probe.output # "pending")
    => probe.output = BranchByContainment(toLowerCase(probe.input))
\* ------------------------------------------------------------------------
\* column-stats: the record returned
\* ------------------------------------------------------------------------

\* The field names of each branch's aggregate row.
BranchKeys(branch) ==
    CASE branch = "numeric" ->
            {<<"c","o","u","n","t">>, <<"m","e","a","n">>, <<"m","i","n">>,
             <<"m","a","x">>, <<"m","e","d","i","a","n">>}
      [] branch = "temporal" ->
            {<<"c","o","u","n","t">>, <<"m","i","n">>, <<"m","a","x">>}
      [] OTHER ->
            {<<"c","o","u","n","t">>,
             <<"d","i","s","t","i","n","c","t","_","c","o","u","n","t">>,
             <<"m","a","x","_","l","e","n","g","t","h">>}

\* The record of a column-stats invocation that succeeded.
StatsOf(rec) == rec.resp.content[1][1].json

ColumnStatsSucceeded(rec) ==
    rec.h = "column-stats" /\ Responded(rec) /\ rec.resp.outcome = "Success"

\* C11: a successful column-stats returns the fields of the selected
\* branch's aggregate row, plus null_count as the separately run null-count
\* query returned it, plus data_type, the declared type; the null-count
\* query is the third query whichever the branch, and a numeric column's
\* keys are exactly count, mean, min, max, median, null_count, data_type.
C11_StatsRecordMergesNullCount ==
    \A i \in Slots :
        ColumnStatsSucceeded(inv[i])
        => LET rec == inv[i]
               out == StatsOf(inv[i])
               branch == BranchByContainment(inv[i].results[1][1].data_type)
               nullKey == <<"n","u","l","l","_","c","o","u","n","t">>
               typeKey == <<"d","a","t","a","_","t","y","p","e">>
           IN  /\ DOMAIN out = BranchKeys(branch) \cup {nullKey, typeKey}
               /\ \A k \in BranchKeys(branch) : out[k] = rec.results[2][1][k]
               /\ Len(rec.calls) = 3
               /\ rec.calls[3].sql # rec.calls[2].sql
               /\ Contains(rec.calls[3].sql, <<"C","O","U","N","T","(","*",")">>)
               /\ Contains(rec.calls[3].sql, <<"I","S"," ","N","U","L","L">>)
               /\ out[nullKey] = rec.results[3][1][nullKey]
               /\ out[typeKey] = rec.results[1][1].data_type
               /\ branch = "numeric"
                    => /\ DOMAIN out =
                            {<<"c","o","u","n","t">>, <<"m","e","a","n">>, <<"m","i","n">>,
                             <<"m","a","x">>, <<"m","e","d","i","a","n">>, nullKey, typeKey}
                       /\ <<"d","i","s","t","i","n","c","t","_","c","o","u","n","t">>
                            \notin DOMAIN out

\* C11 witness: column-stats on an int4 column returned its record with the
\* null count "2" of the null-count query.
C11_Witness ==
    \E i \in Slots :
        /\ ColumnStatsSucceeded(inv[i])
        /\ inv[i].dataType = <<"i","n","t","4">>
        /\ inv[i].results[3][1][<<"n","u","l","l","_","c","o","u","n","t">>] = "2"
        /\ StatsOf(inv[i])[<<"n","u","l","l","_","c","o","u","n","t">>] = "2"
        /\ <<"m","e","d","i","a","n">> \in DOMAIN StatsOf(inv[i])

\* ------------------------------------------------------------------------
\* Start-up
\* ------------------------------------------------------------------------

\* The URL-configured server was started without its argument and the
\* argument check has run.
StartedWithoutUrl ==
    variant = "url" /\ proc.argv = "none" /\ proc.phase # "start"

\* C12: started without the database URL, the URL-configured server has
\* printed its diagnostic to stderr and exited with status 1, with no pool
\* created, no resource registered and no transport connected; no request is
\* served and no client leased in such a run.
C12_MissingUrlExitsBeforeServing ==
    StartedWithoutUrl
    => /\ proc.status = "exit(1)"
       /\ proc.stderr = <<"Please provide a database URL as a command-line argument">>
       /\ ~proc.pool
       /\ ~proc.registered
       /\ proc.transport = "none"
       /\ \A i \in Slots : inv[i].h = "none" /\ inv[i].resp.kind = "none"
       /\ poolOut = 0

\* C12 witness: the process started without an argument has exited.
C12_Witness ==
    /\ StartedWithoutUrl
    /\ proc.status = "exit(1)"
    /\ Len(proc.stderr) = 1

\* The connectivity error as a handler reports it: its own pool.connect()
\* failed and the response is a failure.
SurfacesConnectError(rec) ==
    /\ rec.resp.outcome = "Failure"
    /\ \E k \in DOMAIN rec.tasks : rec.tasks[k] = "failed"

\* Task k of slot i leaves pool.connect() in this step.
ConnectSettles(i, k) ==
    /\ k \in DOMAIN inv[i].tasks
    /\ inv[i].tasks[k] = "connect"
    /\ k \in DOMAIN inv'[i].tasks
    /\ inv'[i].tasks[k] # "connect"

\* C13: a failed start-up connection test is logged and leaves the process
\* running and serving. After it, a query attempt made while the database is
\* unreachable goes to the pool itself, leases nothing and fails into its own
\* invocation's response; an attempt made while the database is reachable
\* gets its client; and no response reports a connectivity failure that the
\* invocation did not meet itself.
C13_StartupTestFailureNotFatal ==
    /\ [](proc.startupTest = "failed"
            => /\ proc.status = "running"
               /\ \E n \in DOMAIN proc.stderr : proc.stderr[n] = "Database connection error:"
               /\ proc.transport = "connected" => proc.phase = "serving"
               /\ \A i \in Slots :
                     (Responded(inv[i]) /\ \E p \in DOMAIN inv[i].resp.content[1] :
                            inv[i].resp.content[1][p] = [driver |-> "connect ECONNREFUSED"])
                     => /\ inv[i].resp.outcome = "Failure"
                        /\ inv[i].acquires < Len(inv[i].calls)
                        /\ \E k \in DOMAIN inv[i].tasks : inv[i].tasks[k] = "failed")
    /\ [][proc.startupTest = "failed"
            => \A i \in Slots : \A k \in 1..MaxTables :
                  ConnectSettles(i, k)
                  => IF reach = "down"
                     THEN /\ inv'[i].tasks[k] = "failed"
                          /\ poolOut' = poolOut
                          /\ inv'[i].acquires = inv[i].acquires
                          /\ SurfacesConnectError(inv'[i])
                          /\ inv[i].resp = NoResponse
                               => \E p \in DOMAIN inv'[i].resp.content[1] :
                                     inv'[i].resp.content[1][p] =
                                        [driver |-> "connect ECONNREFUSED"]
                     ELSE /\ inv'[i].tasks[k] = "query"
                          /\ inv'[i].acquires = inv[i].acquires + 1]_vars

\* C13 witness: the start-up test failed (the database was unreachable), the
\* process runs, and a request made with the database reachable again has
\* leased a client and succeeded.
C13_Witness ==
    /\ proc.startupTest = "failed"
    /\ proc.status = "running"
    /\ reach = "up"
    /\ \E i \in Slots :
          /\ inv[i].h = "execute-query"
          /\ inv[i].resp.outcome = "Success"
          /\ inv[i].acquires = 1

\* ------------------------------------------------------------------------
\* Leases and queries
\* ------------------------------------------------------------------------

\* The queries a handler runs when all of them succeed.
QueriesOf(rec) ==
    CASE rec.h \in {"column-stats", "table-details"} -> 3
      [] rec.h = "table-stats" -> 2
      [] rec.h = "explore-table" -> 4
      [] rec.h = "generate-query" -> 1 + Len(rec.results[1])
      [] rec.h = "optimize-query" -> 0
      [] OTHER -> 1

\* C14 (as claimed): an invocation acquires at most one lease and releases
\* at most one, whatever the number of its queries.
C14_AsClaimed ==
    \A i \in Slots : inv[i].acquires <= 1 /\ inv[i].releases <= 1

\* C14 (amended): a lease belongs to one query, not to the handler. An
\* invocation acquires at most one lease per query it has issued and releases
\* no more than it acquired; but for generate-query, whose schema queries run
\* at once, it holds at most one at a time; and an invocation that succeeded
\* has acquired and released one lease for each of its queries: three in
\* column-stats and table-details, two in table-stats, four in explore-table,
\* one and one per table in generate-query, one in the other handlers.
C14_OneLeasePerQuery ==
    \A i \in Slots :
        LET rec == inv[i]
        IN  /\ rec.acquires <= Len(rec.calls)
            /\ rec.releases <= rec.acquires
            /\ rec.h # "generate-query" => rec.acquires - rec.releases <= 1
            /\ (rec.h # "none" /\ rec.resp.outcome = "Success")
                 => /\ Len(rec.calls) = QueriesOf(rec)
                    /\ rec.acquires = QueriesOf(rec)
                    /\ rec.releases = QueriesOf(rec)

\* C14 witness: a column-stats invocation has succeeded with three acquires
\* and three releases.
C14_Witness ==
    \E i \in Slots :
        /\ inv[i].h = "column-stats"
        /\ inv[i].resp.outcome = "Success"
        /\ inv[i].acquires = 3
        /\ inv[i].releases = 3

\* ------------------------------------------------------------------------
\* column-stats: the order of its queries
\* ------------------------------------------------------------------------

\* The text asks the catalog for the column's declared type.
IsTypeLookup(sql) ==
    /\ Contains(sql, <<"S","E","L","E","C","T"," ","d","a","t","a","_","t","y","p","e">>)
    /\ Contains(sql, <<"i","n","f","o","r","m","a","t","i","o","n","_","s","c","h","e","m","a",
                       ".","c","o","l","u","m","n","s">>)

\* The text aggregates over the column's non-null values.
IsAggregate(sql) ==
    Contains(sql, <<"I","S"," ","N","O","T"," ","N","U","L","L">>)

\* The text counts the rows in which the column is null.
IsNullCount(sql) ==
    /\ Contains(sql, <<"a","s"," ","n","u","l","l","_","c","o","u","n","t">>)
    /\ Contains(sql, <<"I","S"," ","N","U","L","L">>)

\* C16: column-stats issues the type lookup, then the aggregate, then the
\* null count, one at a time and each only after the one before returned
\* rows. A lookup without a row ends the invocation with an error envelope
\* naming the column and the table, and no second query; a failed query is
\* the last one issued, so a failed aggregate is not followed by the null
\* count.
C16_ColumnStatsQueriesInOrder ==
    \A i \in Slots :
        inv[i].h = "column-stats"
        => LET rec == inv[i]
               n == Len(inv[i].calls)
           IN  /\ n <= 3
               /\ Len(rec.tasks) <= 1
               /\ n >= 1 => IsTypeLookup(rec.calls[1].sql)
               /\ n >= 2 => /\ IsAggregate(rec.calls[2].sql)
                            /\ Len(rec.results) >= 1
                            /\ Len(rec.results[1]) = 1
               /\ n = 3 => /\ IsNullCount(rec.calls[3].sql)
                           /\ Len(rec.results) >= 2
               /\ (Len(rec.results) >= 1 /\ rec.results[1] = <<>>)
                    => /\ n = 1
                       /\ rec.resp.kind = "tool"
                       /\ rec.resp.isError
                       /\ rec.resp.content =
                            <<<<[lit |-> "Error getting column statistics: "],
                                [lit |-> "Column "], [str |-> rec.args.columnName],
                                [lit |-> " not found in table "],
                                [str |-> rec.args.tableName]>>>>
               /\ GatewayFailed(rec)
                    => /\ n = Len(rec.results) + 1
                       /\ rec.resp.isError
                       /\ Pending(rec) = {}

\* C16 witness: the aggregate query of a column-stats invocation failed and
\* the invocation ended with two queries issued.
C16_Witness ==
    \E i \in Slots :
        /\ inv[i].h = "column-stats"
        /\ GatewayFailed(inv[i])
        /\ Len(inv[i].results) = 1
        /\ Len(inv[i].calls) = 2
        /\ inv[i].resp.isError

\* ------------------------------------------------------------------------
\* Requests in flight together
\* ------------------------------------------------------------------------

\* The (slot, task) pairs whose query holds a client now.
LeaseHolders ==
    {p \in Slots \X (1..MaxTables) :
        p[2] \in DOMAIN inv[p[1]].tasks /\ inv[p[1]].tasks[p[2]] = "query"}

\* C15: with several requests in flight, every client out of the pool is
\* held by exactly one query of exactly one invocation, which is waiting for
\* that query and nothing else; the pool never has more out than its size; a
\* step of one invocation leaves every other invocation as it was; two
\* invocations that met the same input and the same results gave the same
\* response; and a response, once given, does not change.
C15_LeasesOwnedAndInvocationsIndependent ==
    /\ [](/\ poolOut = Cardinality(LeaseHolders)
          /\ poolOut <= PoolSize
          /\ \A i \in Slots :
                /\ inv[i].acquires - inv[i].releases =
                      Cardinality({p \in LeaseHolders : p[1] = i})
                /\ inv[i].h = "none" => inv[i].acquires = 0
          /\ \A i, j \in Slots :
                (Responded(inv[i]) /\ Responded(inv[j])
                 /\ inv[i].h = inv[j].h /\ inv[i].args = inv[j].args
                 /\ inv[i].results = inv[j].results
                 /\ GatewayFailed(inv[i]) = GatewayFailed(inv[j])
                 /\ inv[i].resp.outcome = inv[j].resp.outcome)
                => \/ inv[i].resp = inv[j].resp
                   \/ /\ GatewayFailed(inv[i])
                      /\ inv[i].resp.kind = inv[j].resp.kind
                      /\ inv[i].resp.isError = inv[j].resp.isError)
    /\ [][/\ \A i, j \in Slots :
                (i # j /\ inv'[i] # inv[i]) => inv'[j] = inv[j]
          /\ \A i \in Slots :
                (Responded(inv[i]) /\ inv'[i].h # "none") => inv'[i].resp = inv[i].resp]_vars

\* C15 witness: two invocations are in flight; a query of the one holds the
\* pool's client while the other waits in pool.connect().
C15_Witness ==
    \E i, j \in Slots :
        /\ i # j
        /\ \E k \in DOMAIN inv[i].tasks : inv[i].tasks[k] = "query"
        /\ \E k \in DOMAIN inv[j].tasks : inv[j].tasks[k] = "connect"
        /\ ~Responded(inv[i])
        /\ ~Responded(inv[j])
        /\ poolOut = 1

\* C17: a client is out of the pool only while its one query runs, so the
\* requests in flight, generate-query's schema queries included, cannot wait
\* for one another for ever: if every query settles and the pool serves its
\* waiters fairly, every invocation gets its response and every query it
\* started ends.
C17_EveryInvocationResponds ==
    \A i \in Slots :
        /\ (inv[i].h # "none") ~> Responded(inv[i])
        /\ (Pending(inv[i]) # {}) ~> (Pending(inv[i]) = {})

\* C17 witness: generate-query has responded after its schema queries, one
\* per table, all returned, while another request was in flight.
C17_Witness ==
    \E i, j \in Slots :
        /\ i # j
        /\ inv[i].h = "generate-query"
        /\ inv[i].resp.outcome = "Success"
        /\ inv[i].acquires = 1 + MaxTables
        /\ inv[j].h # "none"

====
